---- MODULE Spec2Model ----
(***************************************************************************)
(* A model of context-mcp-server (src/src/context_mcp_server/server.py):   *)
(* the fetch tool (fetch_url, pagination) and the fetch_and_save tool      *)
(* (fetch_with_jina_fallback, generate_filename_from_url, path resolution, *)
(* makedirs / open / write).                                               *)
(*                                                                         *)
(* Text is a sequence of one-character strings, so that slicing,           *)
(* substring search, splitting and replacing are computed as Python        *)
(* computes them.                                                          *)
(***************************************************************************)
EXTENDS Integers, Sequences, FiniteSets, TLC

VARIABLES
    config,     \* serve()'s arguments: user agent, proxy, work_dir
    web,        \* the response the network gave to the last direct GET
    fetched,    \* what fetch_url returned (or raised) in the last tool call
    fetchReq,   \* arguments of the last fetch tool call
    fetchRes,   \* outcome of the last fetch tool call
    phase,      \* the client: "idle", "probed", "paging", "done", "failed"
    pages,      \* the paginated views the paging client received, in order
    now,        \* the wall clock, in ticks
    dirs,       \* directories that exist, as normalised segment sequences
    files,      \* the files that exist: normalised path -> content
    saveRes,    \* record of the last fetch_and_save call
    autoLog,    \* the paths resolved by the calls made without a file_path
    ncalls      \* number of fetch_and_save calls made

fetchVars == <<fetched, fetchReq, fetchRes, phase, pages>>
saveVars == <<now, dirs, files, saveRes, autoLog, ncalls>>
vars == <<config, web, fetched, fetchReq, fetchRes, phase, pages,
          now, dirs, files, saveRes, autoLog, ncalls>>

----------------------------------------------------------------------------
(* Bounds of the model.                                                    *)

\* longest short page body
MaxLen == 3
\* largest max_length the clients ask for
MaxMax == 2
\* last tick of the clock
MaxTick == 2
\* clock ticks per second
TicksPerSecond == 2
\* fetch_and_save calls per behaviour
MaxCalls == 2

----------------------------------------------------------------------------
(* Python's string operations, on sequences of characters.                 *)

Min(a, b) == IF a <= b THEN a ELSE b

\* s[a:b] for 0 <= a, 0 <= b: both ends are clamped to len(s)
PySlice(s, a, b) == SubSeq(s, Min(a, Len(s)) + 1, Min(b, Len(s)))

\* sub in s
Contains(sub, s) ==
    \E i \in 1..(Len(s) - Len(sub) + 1) : SubSeq(s, i, i + Len(sub) - 1) = sub

StartsWith(s, pre) == Len(pre) <= Len(s) /\ SubSeq(s, 1, Len(pre)) = pre

\* s.replace(old, new): every non-overlapping occurrence, left to right
RECURSIVE Replace(_, _, _)
Replace(s, old, new) ==
    IF Len(s) = 0 THEN <<>>
    ELSE IF StartsWith(s, old)
         THEN new \o Replace(SubSeq(s, Len(old) + 1, Len(s)), old, new)
         ELSE <<Head(s)>> \o Replace(Tail(s), old, new)

RECURSIVE LStrip(_, _)
LStrip(s, cs) ==
    IF Len(s) > 0 /\ Head(s) \in cs THEN LStrip(Tail(s), cs) ELSE s

RECURSIVE RStrip(_, _)
RStrip(s, cs) ==
    IF Len(s) > 0 /\ s[Len(s)] \in cs
    THEN RStrip(SubSeq(s, 1, Len(s) - 1), cs)
    ELSE s

\* s.strip(chars)
Strip(s, cs) == RStrip(LStrip(s, cs), cs)

\* the index of the last c in s, 0 when there is none
RECURSIVE LastIndex(_, _)
LastIndex(s, c) ==
    IF Len(s) = 0 THEN 0
    ELSE IF s[Len(s)] = c THEN Len(s)
    ELSE LastIndex(SubSeq(s, 1, Len(s) - 1), c)

\* s.split(c)[-1]
LastPart(s, c) == SubSeq(s, LastIndex(s, c) + 1, Len(s))

\* s.rsplit(c, 1)[0]
RSplitHead(s, c) ==
    IF LastIndex(s, c) = 0 THEN s ELSE SubSeq(s, 1, LastIndex(s, c) - 1)

\* s.split(c): the list of parts
RECURSIVE Split(_, _)
Split(s, c) ==
    IF LastIndex(s, c) = 0 THEN <<s>>
    ELSE Split(SubSeq(s, 1, LastIndex(s, c) - 1), c) \o <<LastPart(s, c)>>

\* n copies of character c
Pad(c, n) == [i \in 1..n |-> c]

----------------------------------------------------------------------------
(* The configuration serve() is started with.                              *)

DEFAULT_USER_AGENT_AUTONOMOUS ==
    "ModelContextProtocol/1.0 (Autonomous; +https://github.com/modelcontextprotocol/servers)"

\* "data": the default --work-dir
DefaultWorkDir == <<"d", "a", "t", "a">>

Configs ==
    [custom_user_agent : {"", "agent/1"},
     proxy_url : {"", "http://proxy:8080"},
     work_dir : {DefaultWorkDir}]

\* custom_user_agent or DEFAULT_USER_AGENT_AUTONOMOUS
user_agent_autonomous ==
    IF config.custom_user_agent # "" THEN config.custom_user_agent
    ELSE DEFAULT_USER_AGENT_AUTONOMOUS

INVALID_PARAMS == "INVALID_PARAMS"

INTERNAL_ERROR == "INTERNAL_ERROR"

----------------------------------------------------------------------------
(* What the network can answer to a GET.                                   *)

\* the length of the body prefix searched for "<html"
HtmlProbeLen == 100

HtmlTag ==
    <<"<", "h", "t", "m", "l">>

TextHtml ==
    <<"t", "e", "x", "t", "/", "h", "t", "m", "l">>

CtHtmlUtf8 ==
    <<"t", "e", "x", "t", "/", "h", "t", "m", "l", ";", " ", "c", "h", "a",
    "r", "s", "e", "t", "=", "u", "t", "f", "-", "8">>

CtPlain ==
    <<"t", "e", "x", "t", "/", "p", "l", "a", "i", "n">>

CtUpperHtml ==
    <<"T", "E", "X", "T", "/", "H", "T", "M", "L">>

\* extract_content_from_html's in-band failure text
SimplifyFailed ==
    <<"<", "e", "r", "r", "o", "r", ">", "P", "a", "g", "e", " ", "f", "a",
    "i", "l", "e", "d", " ", "t", "o", " ", "b", "e", " ", "s", "i", "m",
    "p", "l", "i", "f", "i", "e", "d", " ", "f", "r", "o", "m", " ", "H",
    "T", "M", "L", "<", "/", "e", "r", "r", "o", "r", ">">>

\* the text returned when start_index is at or past the end
NoMoreContent ==
    <<"<", "e", "r", "r", "o", "r", ">", "N", "o", " ", "m", "o", "r", "e",
    " ", "c", "o", "n", "t", "e", "n", "t", " ", "a", "v", "a", "i", "l",
    "a", "b", "l", "e", ".", "<", "/", "e", "r", "r", "o", "r", ">">>

ContentTypes == {<<>>, CtHtmlUtf8, CtPlain, CtUpperHtml}

RECURSIVE SeqsUpTo(_, _)
SeqsUpTo(S, n) ==
    IF n = 0 THEN {<<>>}
    ELSE LET shorter == SeqsUpTo(S, n - 1)
         IN  shorter \cup {Append(s, c) : s \in shorter, c \in S}

\* page bodies without markup, up to MaxLen characters
ShortBodies == SeqsUpTo({"a", "b"}, MaxLen)

\* page bodies with an <html> tag whose "<html" ends at, or just past, the
\* searched prefix, or starts the body
HtmlBodies ==
    {Pad("x", k) \o HtmlTag \o <<">">> \o t :
        k \in {0, HtmlProbeLen - Len(HtmlTag), HtmlProbeLen - Len(HtmlTag) + 1},
        t \in {<<>>, <<"a", "b">>}}

Bodies == ShortBodies \cup HtmlBodies

NoText == <<>>

Response(status, ctype, text) ==
    [kind |-> "response", status |-> status, content_type |-> ctype,
     text |-> text]

\* the GET raised an httpx.HTTPError
TransportError ==
    [kind |-> "transport_error", status |-> 0, content_type |-> NoText,
     text |-> NoText]

WebResponses ==
    {TransportError}
    \cup {Response(s, c, b) : s \in {200, 399}, c \in ContentTypes, b \in Bodies}
    \cup {Response(s, c, NoText) : s \in {400, 500}, c \in {<<>>, CtPlain}}

\* a valid URL as urlparse sees it, or a string pydantic's AnyUrl rejects
Url(text, valid, netloc, path) ==
    [text |-> text, valid |-> valid, netloc |-> netloc, path |-> path]

----------------------------------------------------------------------------
(* extract_content_from_html and fetch_url.                                *)

\* readabilipy's extraction followed by markdownify, as far as this model
\* goes: the markup is dropped and the text between the tags is kept
InTag(s, i) ==
    \/ s[i] = "<"
    \/ \E j \in 1..(i - 1) :
        s[j] = "<" /\ \A k \in (j + 1)..(i - 1) : s[k] # ">"

\* the characters of s[lo..hi] that are outside every tag
RECURSIVE StripRange(_, _, _)
StripRange(s, lo, hi) ==
    IF lo > hi THEN <<>>
    ELSE IF lo = hi THEN IF InTag(s, lo) THEN <<>> ELSE <<s[lo]>>
    ELSE StripRange(s, lo, (lo + hi) \div 2)
         \o StripRange(s, ((lo + hi) \div 2) + 1, hi)

StripTags(s) == StripRange(s, 1, Len(s))

extract_content_from_html(html) ==
    LET content == StripTags(html)
    IN  IF content = <<>> THEN SimplifyFailed ELSE content

Returned(content, prefix) ==
    [kind |-> "returned", content |-> content, prefix |-> prefix,
     message |-> <<>>]

Raised(message) ==
    [kind |-> "raised", content |-> <<>>, prefix |-> <<>>,
     message |-> message]

NotCalled ==
    [kind |-> "not_called", content |-> <<>>, prefix |-> <<>>,
     message |-> <<>>]

RawPrefix(content_type) ==
    <<"Content type ">> \o content_type
    \o <<" cannot be simplified to markdown, but here is the raw content:\n">>

\* is_page_html searching the whole body for "<html"
is_page_html_whole_body(page_raw, content_type) ==
    \/ Contains(HtmlTag, page_raw)
    \/ Contains(TextHtml, content_type)
    \/ content_type = <<>>

is_page_html(page_raw, content_type) ==
    \/ Contains(HtmlTag, PySlice(page_raw, 0, HtmlProbeLen))
    \/ Contains(TextHtml, content_type)
    \/ content_type = <<>>

\* fetch_url(url, user_agent, force_raw, proxy_url) when the GET ends in resp
fetch_url(url, force_raw, resp) ==
    IF resp.kind = "transport_error"
    THEN Raised(<<"Failed to fetch ", url.text, ": HTTPError">>)
    ELSE IF resp.status >= 400
    THEN Raised(<<"Failed to fetch ", url.text, " - status code ",
                  ToString(resp.status)>>)
    ELSE IF is_page_html(resp.text, resp.content_type) /\ ~force_raw
    THEN Returned(extract_content_from_html(resp.text), <<>>)
    ELSE Returned(resp.text, RawPrefix(resp.content_type))

----------------------------------------------------------------------------
(* The fetch tool: call_tool's "fetch" branch.                             *)

\* Fetch.max_length: gt=0, lt=1000000
MaxLengthLimit == 1000000

FetchUrls ==
    {Url("https://example.com/", TRUE, <<>>, <<>>),
     Url("not a url", FALSE, <<>>, <<>>)}

\* the paginated content: the text, and the continuation notice appended
\* to it with the start index the notice names
View(text, notice, next_start) ==
    [text |-> text, notice |-> notice, next_start |-> next_start]

NoView == View(<<>>, FALSE, -1)

\* Paginate with the notice naming the index after the next character
PaginateSkipsOne(content, start_index, max_length) ==
    LET truncated_content ==
            PySlice(content, start_index, start_index + max_length)
        remaining_content ==
            Len(content) - (start_index + Len(truncated_content))
    IN  IF start_index >= Len(content) \/ truncated_content = <<>>
        THEN View(NoMoreContent, FALSE, -1)
        ELSE IF Len(truncated_content) = max_length /\ remaining_content > 0
        THEN View(truncated_content, TRUE,
                  start_index + Len(truncated_content) + 1)
        ELSE View(truncated_content, FALSE, -1)

\* Paginate with the notice also appended when nothing remains
PaginateNoticeAtEnd(content, start_index, max_length) ==
    LET truncated_content ==
            PySlice(content, start_index, start_index + max_length)
        remaining_content ==
            Len(content) - (start_index + Len(truncated_content))
    IN  IF start_index >= Len(content) \/ truncated_content = <<>>
        THEN View(NoMoreContent, FALSE, -1)
        ELSE IF Len(truncated_content) = max_length /\ remaining_content >= 0
        THEN View(truncated_content, TRUE,
                  start_index + Len(truncated_content))
        ELSE View(truncated_content, FALSE, -1)

\* lines 267-281: the content returned for start_index and max_length
Paginate(content, start_index, max_length) ==
    LET original_length == Len(content)
        truncated_content ==
            PySlice(content, start_index, start_index + max_length)
        actual_content_length == Len(truncated_content)
        remaining_content ==
            original_length - (start_index + actual_content_length)
    IN  IF start_index >= original_length
        THEN View(NoMoreContent, FALSE, -1)
        ELSE IF truncated_content = <<>>
        THEN View(NoMoreContent, FALSE, -1)
        ELSE IF actual_content_length = max_length /\ remaining_content > 0
        THEN View(truncated_content, TRUE, start_index + actual_content_length)
        ELSE View(truncated_content, FALSE, -1)

ToolResult(prefix, page) ==
    [kind |-> "result", code |-> "", message |-> <<>>, prefix |-> prefix,
     page |-> page]

ToolError(code, message) ==
    [kind |-> "error", code |-> code, message |-> message, prefix |-> <<>>,
     page |-> NoView]

NoOutcome ==
    [kind |-> "none", code |-> "", message |-> <<>>, prefix |-> <<>>,
     page |-> NoView]

FetchArgs(url, max_length, start_index, raw) ==
    [url |-> url, max_length |-> max_length, start_index |-> start_index,
     raw |-> raw]

NoFetchArgs == FetchArgs(Url("", FALSE, <<>>, <<>>), 0, 0, FALSE)

\* Fetch(**arguments) raises ValueError
FetchInvalid(args) ==
    \/ ~args.url.valid
    \/ ~(args.max_length > 0 /\ args.max_length < MaxLengthLimit)
    \/ ~(args.start_index >= 0)

\* call_tool("fetch", args) when the GET ends in resp: what fetch_url
\* returned or raised, and the outcome of the call
call_tool_fetch(args, resp) ==
    LET got == fetch_url(args.url, args.raw, resp)
    IN  IF FetchInvalid(args)
        THEN [fetched |-> NotCalled,
              res |-> ToolError(INVALID_PARAMS, <<"validation error">>)]
        ELSE IF got.kind = "raised"
        THEN [fetched |-> got, res |-> ToolError(INTERNAL_ERROR, got.message)]
        ELSE [fetched |-> got,
              res |-> ToolResult(got.prefix,
                                 Paginate(got.content, args.start_index,
                                          args.max_length))]

\* one fetch call, whatever the client is doing
DoFetch(args, resp, run) ==
    /\ web' = resp
    /\ fetchReq' = args
    /\ fetched' = run.fetched
    /\ fetchRes' = run.res
    /\ UNCHANGED <<config, saveVars>>

\* a single call with arbitrary arguments
Probe ==
    /\ phase = "idle"
    /\ \E url \in FetchUrls, m \in 0..MaxMax, s \in (-1)..(MaxLen + 1),
          raw \in BOOLEAN, resp \in WebResponses :
        \E run \in {call_tool_fetch(FetchArgs(url, m, s, raw), resp)} :
            DoFetch(FetchArgs(url, m, s, raw), resp, run)
    /\ phase' = "probed"
    /\ UNCHANGED pages

AfterPage(res) ==
    IF res.kind = "error" THEN "failed"
    ELSE IF res.page.notice THEN "paging" ELSE "done"

\* the paging client's first call: start_index 0
StartPaging ==
    /\ phase = "idle"
    /\ \E url \in {u \in FetchUrls : u.valid}, m \in 1..MaxMax,
          raw \in BOOLEAN, resp \in WebResponses :
        \E run \in {call_tool_fetch(FetchArgs(url, m, 0, raw), resp)} :
            /\ DoFetch(FetchArgs(url, m, 0, raw), resp, run)
            /\ phase' = AfterPage(run.res)
            /\ pages' = IF run.res.kind = "error" THEN <<>>
                        ELSE <<run.res.page>>

\* the paging client's next call: the start index the last notice named,
\* the page being served unchanged
FollowNotice ==
    /\ phase = "paging"
    /\ \E args \in {FetchArgs(fetchReq.url, fetchReq.max_length,
                              fetchRes.page.next_start, fetchReq.raw)} :
        \E run \in {call_tool_fetch(args, web)} :
            /\ DoFetch(args, web, run)
            /\ phase' = AfterPage(run.res)
            /\ pages' = IF run.res.kind = "error" THEN pages
                        ELSE Append(pages, run.res.page)

DefaultConfig ==
    [custom_user_agent |-> "", proxy_url |-> "", work_dir |-> DefaultWorkDir]

InitFetchVars ==
    /\ web = TransportError
    /\ fetched = NotCalled
    /\ fetchReq = NoFetchArgs
    /\ fetchRes = NoOutcome
    /\ phase = "idle"
    /\ pages = <<>>

----------------------------------------------------------------------------
(* fetch_with_jina_fallback: the reader service first, then fetch_url.     *)

\* what json.loads makes of a body: the Python value's type and, by type,
\* the string, the list's items, or the dict's keys and those mapped to None
Json(type, str, items, keys, nulls) ==
    [type |-> type, str |-> str, items |-> items, keys |-> keys,
     nulls |-> nulls]

\* json.loads raises JSONDecodeError
NotJson == Json("invalid", <<>>, {}, {}, {})

JScalar(type) == Json(type, <<>>, {}, {}, {})

JStr(s) == Json("str", s, {}, {}, {})

JList(items) == Json("list", <<>>, items, {}, {})

JDict(keys, nulls) == Json("dict", <<>>, {}, keys, nulls)

Body(text, json) == [text |-> text, json |-> json]

CodeWord == <<"c", "o", "d", "e">>

\* bodies the reader service can answer with, each with what json.loads
\* returns for it
MarkdownBody == Body(<<"#", " ", "T">>, NotJson)

ErrorPayload ==
    Body(<<"{\"code\":4,", "\"data\":null,", "\"message\":\"x\"}">>,
         JDict({"code", "data", "message"}, {"data"}))

ErrorPayloadNoData ==
    Body(<<"{\"code\":4,", "\"message\":\"x\"}">>,
         JDict({"code", "message"}, {}))

JinaBodies ==
    {MarkdownBody,
     Body(<<>>, NotJson),
     ErrorPayload,
     ErrorPayloadNoData,
     Body(<<"{\"code\":0,", "\"data\":\"ok\"}">>, JDict({"code", "data"}, {})),
     Body(<<"{\"data\":null}">>, JDict({"data"}, {"data"})),
     Body(<<"{\"title\":\"t\"}">>, JDict({"title"}, {})),
     Body(<<"4", "2">>, JScalar("int")),
     Body(<<"n", "u", "l", "l">>, JScalar("NoneType")),
     Body(<<"t", "r", "u", "e">>, JScalar("bool")),
     Body(<<"\"", "h", "i", "\"">>, JStr(<<"h", "i">>)),
     Body(<<"\"">> \o CodeWord \o <<"\"">>, JStr(CodeWord)),
     Body(<<"[", "1", "]">>, JList({"1"})),
     Body(<<"[\"code\"]">>, JList({"code"}))}

JinaResponse(status, body) ==
    [kind |-> "response", status |-> status, body |-> body]

JinaTransportError ==
    [kind |-> "transport_error", status |-> 0, body |-> Body(<<>>, NotJson)]

JinaOutcomes ==
    {JinaTransportError}
    \cup {JinaResponse(200, b) : b \in JinaBodies}
    \cup {JinaResponse(s, b) : s \in {201, 404, 500},
                               b \in {MarkdownBody, ErrorPayload}}

\* "code" in error_data: "ok" with the answer, or the exception raised
HasCode(v) ==
    CASE v.type = "dict" -> [raises |-> "", value |-> "code" \in v.keys]
      [] v.type = "list" -> [raises |-> "", value |-> "code" \in v.items]
      [] v.type = "str" -> [raises |-> "", value |-> Contains(CodeWord, v.str)]
      [] OTHER -> [raises |-> "TypeError", value |-> FALSE]

\* error_data.get("data") is None
DataIsNone(v) ==
    IF v.type = "dict"
    THEN [raises |-> "", value |-> ("data" \notin v.keys \/ "data" \in v.nulls)]
    ELSE [raises |-> "AttributeError", value |-> FALSE]

\* lines 113-120 on a status-200 body: "" when control reaches the return,
\* or the exception that leaves the inner try
JinaCheck(body) ==
    IF body.json.type = "invalid" THEN ""
    ELSE IF HasCode(body.json).raises # "" THEN HasCode(body.json).raises
    ELSE IF ~HasCode(body.json).value THEN ""
    ELSE IF DataIsNone(body.json).raises # "" THEN DataIsNone(body.json).raises
    ELSE IF DataIsNone(body.json).value THEN "Exception"
    ELSE ""

JinaPrefix == <<"Content fetched via Jina Reader API:\n">>

\* the arguments of one fetch_url invocation
UrlCall(url, user_agent, force_raw, proxy_url) ==
    [url |-> url, user_agent |-> user_agent, force_raw |-> force_raw,
     proxy_url |-> proxy_url]

\* JinaSucceeds taking every status below 400 for a success
JinaSucceedsBelow400(jina) ==
    /\ jina.kind = "response"
    /\ jina.status < 400
    /\ JinaCheck(jina.body) = ""

\* whether the reader service's answer is returned as the result
JinaSucceeds(jina) ==
    /\ jina.kind = "response"
    /\ jina.status = 200
    /\ JinaCheck(jina.body) = ""

\* fetch_with_jina_fallback when the reader service ends in jina and a
\* direct GET ends in resp: what it returns or raises, and its fetch_url calls
fetch_with_jina_fallback(url, user_agent, force_raw, proxy_url, jina, resp) ==
    IF JinaSucceeds(jina)
    THEN [out |-> Returned(jina.body.text, JinaPrefix), calls |-> <<>>]
    ELSE [out |-> fetch_url(url, force_raw, resp),
          calls |-> <<UrlCall(url, user_agent, force_raw, proxy_url)>>]

----------------------------------------------------------------------------
(* generate_filename_from_url and the resolution of the save path.         *)

Letters ==
    {"a", "b", "c", "d", "e", "f", "g", "h", "i", "j", "k", "l", "m", "n",
     "o", "p", "q", "r", "s", "t", "u", "v", "w", "x", "y", "z"}

Digits == <<"0", "1", "2", "3", "4", "5", "6", "7", "8", "9">>

\* the characters the pattern [^\w\-_.] leaves alone
SafeChars == Letters \cup {Digits[i] : i \in 1..10} \cup {"_", "-", "."}

\* re.sub(r'[^\w\-_.]', '_', s)
CleanName(s) == [i \in 1..Len(s) |-> IF s[i] \in SafeChars THEN s[i] ELSE "_"]

WwwDot == <<"w", "w", "w", ".">>

DotMd == <<".", "m", "d">>

\* datetime.now().strftime("%Y%m%d_%H%M%S") at clock tick t: the date and
\* the hour and minute stay put, the seconds are whole
Timestamp(t) ==
    <<"2", "0", "2", "6", "0", "1", "0", "1", "_", "0", "0", "0", "0">>
    \o <<Digits[(((t \div TicksPerSecond) \div 10) % 10) + 1],
         Digits[((t \div TicksPerSecond) % 10) + 1]>>

\* filename_base of lines 185-192
FilenameBase(url) ==
    LET domain == Replace(url.netloc, WwwDot, <<>>)
        path == Strip(url.path, {"/"})
        last == LastPart(path, "/")
    IN  IF path # <<>>
        THEN IF Contains(<<".">>, last) THEN RSplitHead(last, ".") ELSE last
        ELSE domain

generate_filename_from_url(url, t) ==
    CleanName(FilenameBase(url)) \o <<"_">> \o Timestamp(t) \o DotMd

\* os.path.isabs
IsAbs(p) == StartsWith(p, <<"/">>)

\* os.path.join(a, b)
PathJoin(a, b) ==
    IF IsAbs(b) THEN b
    ELSE IF a = <<>> \/ a[Len(a)] = "/" THEN a \o b
    ELSE a \o <<"/">> \o b

\* os.path.dirname
DirName(p) ==
    LET head == SubSeq(p, 1, LastIndex(p, "/"))
    IN  IF head # <<>> /\ head # Pad("/", Len(head))
        THEN RStrip(head, {"/"})
        ELSE head

Whitespace == {" ", "\t", "\n"}

\* FetchAndSave.file_path: None, or a string
NoPath == [given |-> FALSE, text |-> <<>>]

GivenPath(text) == [given |-> TRUE, text |-> text]

\* args.file_path and args.file_path.strip()
PathProvided(file_path) ==
    file_path.given /\ file_path.text # <<>>
    /\ Strip(file_path.text, Whitespace) # <<>>

\* lines 298-313: the path the content is saved to
ResolvePath(url, file_path, work_dir, t) ==
    IF PathProvided(file_path)
    THEN IF IsAbs(Strip(file_path.text, Whitespace))
         THEN Strip(file_path.text, Whitespace)
         ELSE PathJoin(work_dir, Strip(file_path.text, Whitespace))
    ELSE PathJoin(work_dir, generate_filename_from_url(url, t))

----------------------------------------------------------------------------
(* The file system: how the kernel reads a path, makedirs, open, write.    *)

Root == <<"/">>

\* the directory the server runs in, as the kernel sees a relative path
Cwd == <<>>

\* one more segment on a resolved path: "" and "." stay, ".." goes up
Step(resolved, seg) ==
    IF seg = <<>> \/ seg = <<".">> THEN resolved
    ELSE IF seg = <<".", ".">>
    THEN IF resolved = <<Root>> THEN resolved
         ELSE IF resolved = <<>> \/ resolved[Len(resolved)] = <<".", ".">>
         THEN Append(resolved, seg)
         ELSE SubSeq(resolved, 1, Len(resolved) - 1)
    ELSE Append(resolved, seg)

RECURSIVE Walk(_, _)
Walk(resolved, segs) ==
    IF segs = <<>> THEN resolved
    ELSE Walk(Step(resolved, Head(segs)), Tail(segs))

\* the place a path names: its segments, after Root when it is absolute
Resolve(p) == Walk(IF IsAbs(p) THEN <<Root>> ELSE Cwd, Split(p, "/"))

\* the places os.makedirs(d) visits, outermost first: each prefix of d
MakedirsChain(d) ==
    LET segs == Split(d, "/")
    IN  [i \in 1..Len(segs) |->
            Walk(IF IsAbs(d) THEN <<Root>> ELSE Cwd, SubSeq(segs, 1, i))]

\* the places of the chain that are not yet directories, outermost first
Missing(d, ds) == SelectSeq(MakedirsChain(d), LAMBDA x : x \notin ds)

----------------------------------------------------------------------------
(* The fetch_and_save tool: call_tool's "fetch_and_save" branch.           *)

\* the preview in the success message: content[:500]
PreviewLen == 500

SaveArgs(url, file_path, raw) ==
    [url |-> url, file_path |-> file_path, raw |-> raw]

NoSaveArgs == SaveArgs(Url("", FALSE, <<>>, <<>>), NoPath, FALSE)

\* what the file system does to the call: nothing, or the failure of
\* makedirs after k directories, of open, or of write after k characters
Fault(at, k) == [at |-> at, k |-> k]

NoFault == Fault("none", 0)

SaveResult(path, prefix, content) ==
    [kind |-> "result", code |-> "", message |-> <<>>, path |-> path,
     prefix |-> prefix, preview |-> PySlice(content, 0, PreviewLen),
     ellipsis |-> Len(content) > PreviewLen]

SaveError(code, message) ==
    [kind |-> "error", code |-> code, message |-> message, path |-> <<>>,
     prefix |-> <<>>, preview |-> <<>>, ellipsis |-> FALSE]

NoSaveOutcome ==
    [kind |-> "none", code |-> "", message |-> <<>>, path |-> <<>>,
     prefix |-> <<>>, preview |-> <<>>, ellipsis |-> FALSE]

FailedPrefix == <<"Failed to fetch and save: ">>

\* Wrapped passing the cause on as it is
WrappedBare(cause) == SaveError(INTERNAL_ERROR, cause)

\* line 330: every exception of the try block becomes this McpError
Wrapped(cause) == SaveError(INTERNAL_ERROR, FailedPrefix \o cause)

\* WriteFile on a file opened for appending
WriteFileAppending(fs, place, content, n) ==
    [x \in DOMAIN fs \cup {place} |->
        IF x = place
        THEN (IF place \in DOMAIN fs THEN fs[place] ELSE <<>>)
             \o SubSeq(content, 1, n)
        ELSE fs[x]]

\* the file system after f.write(content) wrote the first n characters
WriteFile(fs, place, content, n) ==
    [x \in DOMAIN fs \cup {place} |->
        IF x = place THEN SubSeq(content, 1, n) ELSE fs[x]]

\* how many of the missing directories makedirs creates: it stops at a
\* place that is a file, or where the fault strikes
Creatable(missing, fs, fault) ==
    LET blocked == {i \in 1..Len(missing) : missing[i] \in DOMAIN fs}
        upto == IF blocked = {} THEN Len(missing)
                ELSE (CHOOSE i \in blocked : \A j \in blocked : i <= j) - 1
    IN  IF fault.at = "makedirs" THEN Min(fault.k, upto) ELSE upto

\* lines 321-325 on the file system (ds, fs): the directories and files
\* afterwards, and the exception raised ("" when none)
SaveToDisk(path, content, ds, fs, fault) ==
    LET dir == DirName(path)
        missing == Missing(dir, ds)
        made == Creatable(missing, fs, fault)
        ds2 == IF dir = <<>> THEN ds
               ELSE ds \cup {missing[i] : i \in 1..made}
        place == Resolve(path)
    IN  IF dir = <<>>
        THEN [dirs |-> ds, files |-> fs, raises |-> <<"FileNotFoundError">>]
        ELSE IF fault.at = "makedirs" \/ made < Len(missing)
        THEN [dirs |-> ds2, files |-> fs, raises |-> <<"OSError: makedirs">>]
        ELSE IF fault.at = "open"
        THEN [dirs |-> ds2, files |-> fs, raises |-> <<"PermissionError">>]
        ELSE IF place \in ds2
        THEN [dirs |-> ds2, files |-> fs, raises |-> <<"IsADirectoryError">>]
        ELSE IF fault.at = "write"
        THEN [dirs |-> ds2,
              files |-> WriteFile(fs, place, content,
                                  Min(fault.k, Len(content))),
              raises |-> <<"OSError: write">>]
        ELSE [dirs |-> ds2,
              files |-> WriteFile(fs, place, content, Len(content)),
              raises |-> <<>>]

\* FetchAndSave(**arguments) raises ValueError
SaveInvalid(args) == ~args.url.valid

\* one call of fetch_and_save at tick t on (ds, fs): everything it did
SaveRun(args, jina, resp, fault, t, ds, fs) ==
    LET path == ResolvePath(args.url, args.file_path, config.work_dir, t)
        got == fetch_with_jina_fallback(args.url, user_agent_autonomous,
                                        args.raw, config.proxy_url, jina,
                                        resp)
        disk == SaveToDisk(path, got.out.content, ds, fs, fault)
        base == [req |-> args, jina |-> jina, fault |-> fault, at |-> t,
                 auto |-> ~PathProvided(args.file_path)]
    IN  IF SaveInvalid(args)
        THEN [rec |-> base @@
                [path |-> <<>>, got |-> NotCalled, calls |-> <<>>,
                 outcome |-> SaveError(INVALID_PARAMS, <<"validation error">>)],
              dirs |-> ds, files |-> fs]
        ELSE IF got.out.kind = "raised"
        THEN [rec |-> base @@
                [path |-> path, got |-> got.out, calls |-> got.calls,
                 outcome |-> Wrapped(got.out.message)],
              dirs |-> ds, files |-> fs]
        ELSE IF disk.raises # <<>>
        THEN [rec |-> base @@
                [path |-> path, got |-> got.out, calls |-> got.calls,
                 outcome |-> Wrapped(disk.raises)],
              dirs |-> disk.dirs, files |-> disk.files]
        ELSE [rec |-> base @@
                [path |-> path, got |-> got.out, calls |-> got.calls,
                 outcome |-> SaveResult(path, got.out.prefix,
                                        got.out.content)],
              dirs |-> disk.dirs, files |-> disk.files]

NoSaveRec ==
    [req |-> NoSaveArgs, jina |-> JinaTransportError, fault |-> NoFault,
     at |-> 0, auto |-> FALSE, path |-> <<>>, got |-> NotCalled,
     calls |-> <<>>, outcome |-> NoSaveOutcome]

\* what happens around one call: the reader service's answer, the answer
\* to a direct GET, and what the file system does
Env(jina, resp, fault) == [jina |-> jina, resp |-> resp, fault |-> fault]

\* one fetch_and_save call, its arguments and what happens around it drawn
\* from the given sets
FetchAndSave(Reqs, Envs) ==
    /\ ncalls < MaxCalls
    /\ \E args \in Reqs, env \in Envs :
        \E run \in {SaveRun(args, env.jina, env.resp, env.fault, now, dirs,
                            files)} :
            /\ saveRes' = run.rec
            /\ dirs' = run.dirs
            /\ files' = run.files
            /\ web' = IF run.rec.calls = <<>> THEN web ELSE env.resp
            /\ autoLog' = IF run.rec.auto /\ run.rec.path # <<>>
                          THEN Append(autoLog, run.rec.path)
                          ELSE autoLog
    /\ ncalls' = ncalls + 1
    /\ UNCHANGED <<config, now, fetchVars>>

\* the clock moves on
Tick ==
    /\ now < MaxTick
    /\ now' = now + 1
    /\ UNCHANGED <<config, web, fetchVars, dirs, files, saveRes, autoLog,
                   ncalls>>

----------------------------------------------------------------------------
(* The calls the clients make, and the initial states.                     *)

UrlMyPost ==
    Url("https://www.example.com/blog/my-post.html", TRUE,
        <<"w", "w", "w", ".", "e", "x", "a", "m", "p", "l", "e", ".", "c", "o", "m">>,
        <<"/", "b", "l", "o", "g", "/", "m", "y", "-", "p", "o", "s", "t", ".", "h", "t", "m", "l">>)

UrlBare ==
    Url("https://example.com/", TRUE,
        <<"e", "x", "a", "m", "p", "l", "e", ".", "c", "o", "m">>,
        <<"/">>)

UrlInnerWww ==
    Url("https://awww.example.com/", TRUE,
        <<"a", "w", "w", "w", ".", "e", "x", "a", "m", "p", "l", "e", ".", "c", "o", "m">>,
        <<"/">>)

UrlOtherMyPost ==
    Url("https://example.org/news/my-post", TRUE,
        <<"e", "x", "a", "m", "p", "l", "e", ".", "o", "r", "g">>,
        <<"/", "n", "e", "w", "s", "/", "m", "y", "-", "p", "o", "s", "t">>)

UrlOddName ==
    Url("https://example.com/docs/read~me.v2.txt", TRUE,
        <<"e", "x", "a", "m", "p", "l", "e", ".", "c", "o", "m">>,
        <<"/", "d", "o", "c", "s", "/", "r", "e", "a", "d", "~", "m", "e", ".", "v", "2", ".", "t", "x", "t">>)

UrlRejected == Url("not a url", FALSE, <<>>, <<>>)

\* file_path ""
PathEmpty == GivenPath(<<>>)

\* file_path "  "
PathBlank == GivenPath(<<" ", " ">>)

\* file_path "n.md"
PathName == GivenPath(<<"n", ".", "m", "d">>)

\* file_path " sub/n.md"
PathSub == GivenPath(<<" ", "s", "u", "b", "/", "n", ".", "m", "d">>)

\* file_path "../e.md"
PathUp == GivenPath(<<".", ".", "/", "e", ".", "m", "d">>)

\* file_path "/tmp/a.md"
PathAbs == GivenPath(<<"/", "t", "m", "p", "/", "a", ".", "m", "d">>)

GivenPaths == {PathEmpty, PathBlank, PathName, PathSub, PathUp, PathAbs}

PlainPage == Response(200, CtPlain, <<"a", "b">>)

HtmlPage == Response(200, CtHtmlUtf8, <<"<", "p", ">", "a", "b">>)

NotFound == Response(404, CtPlain, NoText)

JinaOk == JinaResponse(200, MarkdownBody)

Faults ==
    {NoFault, Fault("makedirs", 0), Fault("open", 0), Fault("write", 0),
     Fault("write", 1)}

\* the calls that exercise the resolution of an explicit path
PathReqs ==
    {SaveArgs(UrlBare, p, FALSE) : p \in GivenPaths \ {PathEmpty}}
    \cup {SaveArgs(UrlBare, NoPath, FALSE), SaveArgs(UrlRejected, NoPath, FALSE)}

\* the reader service answers, or it fails and the page is fetched
\* directly, or both fail; the file system fails at any step
PathEnvs ==
    {Env(JinaOk, TransportError, f) : f \in Faults}
    \cup {Env(JinaTransportError, PlainPage, f) : f \in Faults}
    \cup {Env(JinaTransportError, r, NoFault) : r \in {NotFound, TransportError}}

\* the calls that exercise the generated names
NameReqs ==
    {SaveArgs(u, NoPath, FALSE) :
        u \in {UrlMyPost, UrlBare, UrlInnerWww, UrlOtherMyPost, UrlOddName}}
    \cup {SaveArgs(UrlBare, p, FALSE) : p \in {PathEmpty, PathBlank, PathName}}

NameEnvs ==
    {Env(JinaOk, TransportError, NoFault),
     Env(JinaOk, TransportError, Fault("write", 1)),
     Env(JinaTransportError, NotFound, NoFault)}

\* the calls that exercise the fallback
FallbackReqs == {SaveArgs(UrlBare, PathName, raw) : raw \in BOOLEAN}

FallbackEnvs ==
    {Env(j, r, NoFault) :
        j \in JinaOutcomes, r \in {NotFound, PlainPage, HtmlPage}}

DataDir == <<DefaultWorkDir>>

OldFile == <<DefaultWorkDir, <<"n", ".", "m", "d">>>>

\* the directories every file system here starts with: the server's
\* directory, its parent, the root and /tmp
BaseDirs == {Cwd, <<<<".", ".">>>>, <<Root>>, <<Root, <<"t", "m", "p">>>>}

NoFiles == [x \in {} |-> <<>>]

InitSaveVars ==
    /\ now = 0
    /\ saveRes = NoSaveRec
    /\ autoLog = <<>>
    /\ ncalls = 0
    /\ \/ dirs = BaseDirs /\ files = NoFiles
       \/ /\ dirs = BaseDirs \cup {DataDir}
          /\ files = [x \in {OldFile} |-> <<"o", "l", "d">>]

\* the fetch tool and its paging client
InitFetch ==
    /\ config \in Configs
    /\ InitFetchVars
    /\ now = 0
    /\ saveRes = NoSaveRec
    /\ autoLog = <<>>
    /\ ncalls = 0
    /\ dirs = BaseDirs
    /\ files = NoFiles

NextFetch == Probe \/ StartPaging \/ FollowNotice

SpecFetch == InitFetch /\ [][NextFetch]_vars

\* fetch_and_save: explicit paths, failing fetches and a failing disk
Init ==
    /\ config = DefaultConfig
    /\ InitFetchVars
    /\ InitSaveVars

Next == FetchAndSave(PathReqs, PathEnvs)

Spec == Init /\ [][Next]_vars

\* fetch_and_save: the generated names, as the clock moves
SaveNamed == FetchAndSave(NameReqs, NameEnvs)

NextNames == SaveNamed \/ Tick

SpecNames == Init /\ [][NextNames]_vars

\* fetch_and_save: the reader service and the fallback
InitFallback ==
    /\ config \in {c \in Configs : (c.custom_user_agent = "") = (c.proxy_url = "")}
    /\ InitFetchVars
    /\ InitSaveVars

NextFallback == FetchAndSave(FallbackReqs, FallbackEnvs)

SpecFallback == InitFallback /\ [][NextFallback]_vars

----------------------------------------------------------------------------
(* The properties.                                                         *)

\* the texts of views[lo..hi] joined, the end-of-content text not being a
\* slice of the body
RECURSIVE JoinSlices(_, _, _)
JoinSlices(views, lo, hi) ==
    IF lo > hi THEN <<>>
    ELSE IF lo = hi
    THEN IF views[lo].text = NoMoreContent THEN <<>> ELSE views[lo].text
    ELSE JoinSlices(views, lo, (lo + hi) \div 2)
         \o JoinSlices(views, ((lo + hi) \div 2) + 1, hi)

\* C1: a client that starts at index 0 and follows each continuation
\* notice until a call carries none has received slices whose concatenation
\* is the fetched body, in at most len(body) + 1 calls.
PaginationReconstructs ==
    /\ phase \in {"paging", "done"} => Len(pages) <= Len(fetched.content) + 1
    /\ phase = "done" => JoinSlices(pages, 1, Len(pages)) = fetched.content

\* C1 happens: a body of several pages was read to its end
PagedToTheEnd ==
    /\ phase = "done"
    /\ Len(pages) >= 2
    /\ Len(fetched.content) = MaxLen

\* C2: the paginated text of every fetch result is the end-of-content text
\* without a notice when start_index >= N, and otherwise the slice
\* body[start_index : start_index + max_length], with a notice exactly when
\* the slice is max_length long and characters remain after it, the notice
\* naming start_index + len(slice).
PaginationMatchesRule ==
    fetchRes.kind = "result" =>
        LET body == fetched.content
            start == fetchReq.start_index
            view == fetchRes.page
        IN  IF start >= Len(body)
            THEN view.text = NoMoreContent /\ ~view.notice
            ELSE /\ view.text =
                        SubSeq(body, start + 1,
                               Min(start + fetchReq.max_length, Len(body)))
                 /\ view.notice <=>
                        /\ Len(view.text) = fetchReq.max_length
                        /\ Len(body) - (start + Len(view.text)) > 0
                 /\ view.notice => view.next_start = start + Len(view.text)

\* C2 happens: a call from inside the body was cut short and carries a notice
TruncatedFromInside ==
    /\ fetchRes.kind = "result"
    /\ fetchReq.start_index > 0
    /\ fetchRes.page.notice

\* the response counts as HTML: the content type contains "text/html", or
\* "<html" lies within the first 100 characters, or there is no content type
ClassifiedHtml(resp) ==
    \/ \E i \in 1..Len(resp.content_type) :
        /\ i + Len(TextHtml) - 1 <= Len(resp.content_type)
        /\ SubSeq(resp.content_type, i, i + Len(TextHtml) - 1) = TextHtml
    \/ \E i \in 1..HtmlProbeLen :
        /\ i + Len(HtmlTag) - 1 <= HtmlProbeLen
        /\ i + Len(HtmlTag) - 1 <= Len(resp.text)
        /\ SubSeq(resp.text, i, i + Len(HtmlTag) - 1) = HtmlTag
    \/ resp.content_type = <<>>

\* C5: on a response with status < 400 fetch_url returns the simplified
\* body with an empty prefix when force_raw is false and the response
\* counts as HTML, and the unmodified body with the raw-content advisory
\* naming the content type in every other case.
FetchUrlClassifies ==
    (/\ phase # "idle"
     /\ ~FetchInvalid(fetchReq)
     /\ web.kind = "response"
     /\ web.status < 400) =>
        IF ~fetchReq.raw /\ ClassifiedHtml(web)
        THEN fetched = Returned(extract_content_from_html(web.text), <<>>)
        ELSE /\ fetched = Returned(web.text, RawPrefix(web.content_type))
             /\ fetched.prefix # <<>>

\* C5 happens: a text/plain body whose "<html" ends at character 100 was
\* simplified
TagAtTheEdgeSimplified ==
    /\ phase # "idle"
    /\ web.kind = "response"
    /\ web.content_type = CtPlain
    /\ Len(web.text) > HtmlProbeLen
    /\ fetched.kind = "returned"
    /\ fetched.prefix = <<>>

\* the last fetch_and_save call got past the validation of its arguments
SaveCalled == saveRes.outcome.kind # "none" /\ saveRes.req.url.valid

\* a provider-error payload: a JSON object with the key "code" whose "data"
\* is null or absent
IsErrorPayload(body) ==
    /\ body.json.type = "dict"
    /\ "code" \in body.json.keys
    /\ ("data" \notin body.json.keys \/ "data" \in body.json.nulls)

ProviderFailed(jina) ==
    \/ jina.kind = "transport_error"
    \/ jina.kind = "response" /\ jina.status # 200
    \/ jina.kind = "response" /\ jina.status = 200 /\ IsErrorPayload(jina.body)

\* C3: when the reader service ends in a transport error, a status other
\* than 200 or a status-200 error payload, fetch_url is invoked exactly once
\* with the call's url, identity, force_raw and proxy, and what the call
\* gets is what fetch_url returned or raised, never the provider's answer.
FallbackNeverLeaks ==
    (SaveCalled /\ ProviderFailed(saveRes.jina)) =>
        /\ saveRes.calls =
                <<UrlCall(saveRes.req.url, user_agent_autonomous,
                          saveRes.req.raw, config.proxy_url)>>
        /\ saveRes.got = fetch_url(saveRes.req.url, saveRes.req.raw, web)
        /\ saveRes.got.prefix # JinaPrefix

\* C3 happens: a status-200 error payload was answered by the page itself
ErrorPayloadFellBack ==
    /\ SaveCalled
    /\ saveRes.jina = JinaResponse(200, ErrorPayload)
    /\ Len(saveRes.calls) = 1
    /\ saveRes.got.kind = "returned"

\* C4: a status-200 answer that is no provider-error payload - not JSON, or
\* JSON that is not such an object - is the result, unmodified, with the
\* provider advisory prefix, and fetch_url is not invoked.
ProviderSuccessCriterion ==
    (/\ SaveCalled
     /\ saveRes.jina.kind = "response"
     /\ saveRes.jina.status = 200
     /\ ~IsErrorPayload(saveRes.jina.body)) =>
        /\ saveRes.got = Returned(saveRes.jina.body.text, JinaPrefix)
        /\ saveRes.calls = <<>>

\* the place the last call's path names
SavedPlace == Resolve(saveRes.path)

\* C6: a call that fails after validation - the fetch raised, or makedirs,
\* open or write did - ends in an INTERNAL_ERROR whose message is
\* "Failed to fetch and save: " followed by the cause; and a call that
\* ends in a result has written the whole body.
SaveFailuresAreInternal ==
    /\ (SaveCalled /\ saveRes.got.kind = "raised") =>
            /\ saveRes.outcome.kind = "error"
            /\ saveRes.outcome.code = INTERNAL_ERROR
            /\ saveRes.outcome.message = FailedPrefix \o saveRes.got.message
    /\ (SaveCalled /\ saveRes.got.kind = "returned"
            /\ saveRes.fault.at # "none") =>
            /\ saveRes.outcome.kind = "error"
            /\ saveRes.outcome.code = INTERNAL_ERROR
            /\ StartsWith(saveRes.outcome.message, FailedPrefix)
            /\ Len(saveRes.outcome.message) > Len(FailedPrefix)
    /\ (SaveCalled /\ saveRes.outcome.kind = "result") =>
            /\ saveRes.got.kind = "returned"
            /\ SavedPlace \in DOMAIN files
            /\ files[SavedPlace] = saveRes.got.content

\* C6 happens: a failed write was reported
WriteFailureReported ==
    /\ SaveCalled
    /\ saveRes.got.kind = "returned"
    /\ saveRes.fault.at = "write"
    /\ saveRes.outcome.code = INTERNAL_ERROR

\* a step that is a fetch_and_save call
IsCall == ncalls' = ncalls + 1

\* C7 as claimed: a call either succeeds, the file then holding the whole
\* body, or fails leaving the directories and the files as they were.
SaveIsAtomic ==
    [][IsCall =>
        IF saveRes'.outcome.kind = "result"
        THEN /\ Resolve(saveRes'.path) \in DOMAIN files'
             /\ files'[Resolve(saveRes'.path)] = saveRes'.got.content
        ELSE dirs' = dirs /\ files' = files]_vars

IsProperPrefix(s, t) == Len(s) < Len(t) /\ SubSeq(t, 1, Len(s)) = s

\* C7 as amended: a call either succeeds, the file then holding the whole
\* body, or ends in an error.  A call that fails before the save changes
\* nothing.  A call that fails in the save removes no directory and changes
\* no file but the one at its path, which is either as before or holds a
\* proper prefix of the body.
SaveSucceedsOrFailsPartway ==
    [][IsCall =>
        LET rec == saveRes'
            place == Resolve(rec.path)
        IN  IF rec.outcome.kind = "result"
            THEN /\ place \in DOMAIN files'
                 /\ files'[place] = rec.got.content
                 /\ \A x \in DOMAIN files \ {place} :
                        x \in DOMAIN files' /\ files'[x] = files[x]
            ELSE /\ rec.outcome.kind = "error"
                 /\ rec.got.kind # "returned" => dirs' = dirs /\ files' = files
                 /\ dirs \subseteq dirs'
                 /\ DOMAIN files' \subseteq DOMAIN files \cup {place}
                 /\ \A x \in DOMAIN files \ {place} :
                        x \in DOMAIN files' /\ files'[x] = files[x]
                 /\ place \in DOMAIN files' =>
                        \/ place \in DOMAIN files /\ files'[place] = files[place]
                        \/ IsProperPrefix(files'[place], rec.got.content)]_vars

\* C7 happens: a failed call left a cut file behind
FailedCallLeftCutFile ==
    /\ SaveCalled
    /\ saveRes.outcome.kind = "error"
    /\ saveRes.fault.at = "write"
    /\ SavedPlace \in DOMAIN files
    /\ IsProperPrefix(files[SavedPlace], saveRes.got.content)

\* the file_path is an explicit absolute path
ExplicitAbsolute(file_path) ==
    /\ file_path.given
    /\ \E i \in 1..Len(file_path.text) :
        /\ file_path.text[i] = "/"
        /\ \A j \in 1..(i - 1) : file_path.text[j] \in Whitespace

\* the place lies inside the directory
Inside(place, dir) ==
    Len(place) > Len(dir) /\ SubSeq(place, 1, Len(dir)) = dir

\* C8: unless the file_path is an explicit absolute path, the file is
\* written inside the working directory.
SavedInsideWorkDir ==
    (/\ SaveCalled
     /\ saveRes.outcome.kind = "result"
     /\ ~ExplicitAbsolute(saveRes.req.file_path)) =>
        Inside(SavedPlace, Resolve(config.work_dir))

\* C9: no two calls made without a file_path resolve to the same path.
AutoPathsUnique ==
    \A i, j \in 1..Len(autoLog) : i # j => autoLog[i] # autoLog[j]

\* the stem as specified: the last path segment without its extension, or,
\* the path being empty, the host without a leading "www."
SpecifiedStem(url) ==
    LET path == Strip(url.path, {"/"})
        last == LastPart(path, "/")
    IN  IF path # <<>>
        THEN RSplitHead(last, ".")
        ELSE IF StartsWith(url.netloc, WwwDot)
             THEN SubSeq(url.netloc, Len(WwwDot) + 1, Len(url.netloc))
             ELSE url.netloc

\* C10: the generated name is the specified stem, its characters outside
\* alphanumerics, "_", "-" and "." replaced by "_", then "_", the timestamp
\* and ".md"; it holds no path separator.
FilenameFollowsRule ==
    (SaveCalled /\ saveRes.auto) =>
        LET name == LastPart(saveRes.path, "/")
            stem == SpecifiedStem(saveRes.req.url)
        IN  /\ saveRes.path = PathJoin(config.work_dir, name)
            /\ name = [i \in 1..Len(stem) |->
                          IF stem[i] \in SafeChars THEN stem[i] ELSE "_"]
                      \o <<"_">> \o Timestamp(saveRes.at) \o DotMd

====
